---- MODULE Spec2Model ----
(***************************************************************************)
(* A model of oxidize-js: the class-based Result of src/src/result.ts,     *)
(* its capture helpers, the free functions over T | Error, and the class   *)
(* Option of src/src/options.ts and of src/unnamed/part_003.               *)
(*                                                                         *)
(* Result objects live in a heap (a sequence of cells); the position of a  *)
(* cell is the identity of the object, so "the very same wrapper" is a     *)
(* statement about references.  Every method is an operator from a heap    *)
(* and its arguments to an outcome: the heap afterwards, whether the call  *)
(* returned or threw, the value returned or thrown, and the log of the     *)
(* callbacks it invoked.                                                   *)
(***************************************************************************)
EXTENDS Integers, Sequences, FiniteSets, TLC

\* Bounds of the model.
\* the number of Result objects the caller of Spec keeps, and the number of
\* Result objects the inputs of SpecCollect are built from
MaxHeap == 2
\* the length of the arrays and objects handed to fromArray and fromObject
MaxLen == 2
\* the number of wrapAsync invocations
MaxTasks == 2
\* the largest finite end of an Iterable
MaxEnd == 3
\* the number of Option objects the inputs of SpecOption are built from
MaxOpts == 2
\* the number of functions handed to pipe
MaxSteps == 4
\* the largest number in the headers handed to parseVersion
MaxByte == 3

VARIABLES
    heap,   \* the Result objects constructed so far: <<[value, isOk], ...>>
    last,   \* the call made by the last step
    ret,    \* its outcome: [kind, val]
    calls,  \* the callbacks it invoked, in order
    alt,    \* outcome of the other expression of a law or of the first link
            \* of a chain, [kind, val, calls]
    tasks,  \* the wrapAsync invocations in flight
    opts    \* the Option objects constructed so far: <<[value, cls], ...>>

vars == <<heap, last, ret, calls, alt, tasks, opts>>

----------------------------------------------------------------------------
\* JavaScript values.  One record shape for all of them.

Num(n) == [k |-> "num", n |-> n, xs |-> <<>>]
Null == [k |-> "null", n |-> 0, xs |-> <<>>]
Undefined == [k |-> "undefined", n |-> 0, xs |-> <<>>]
\* a reference to the Result object at heap position i
Ref(i) == [k |-> "ref", n |-> i, xs |-> <<>>]
\* an array literal / the collection built by fromArray
Arr(s) == [k |-> "arr", n |-> 0, xs |-> s]
\* one own enumerable property of an object: key number `key`, value v
Ent(key, v) == [k |-> "ent", n |-> key, xs |-> <<v>>]
\* an object, its entries in Object.entries order
Obj(ents) == [k |-> "obj", n |-> 0, xs |-> ents]
\* an Error instance; n is its identity
Err(n) == [k |-> "err", n |-> n, xs |-> <<>>]

\* a string; n tells the strings apart
Str(n) == [k |-> "str", n |-> n, xs |-> <<>>]

NaN == [k |-> "nan", n |-> 0, xs |-> <<>>]
\* the TypeError the runtime throws (an Error instance)
TypeError == Err(3)
\* "foo"
Foo == Str(5)
\* a Symbol
Sym == [k |-> "symbol", n |-> 1, xs |-> <<>>]

Nums == {Num(0), Num(1)}
\* the plain values callers hand to the library
Vals == Nums \cup {Null}

IsRef(v) == v.k = "ref"

----------------------------------------------------------------------------
\* Outcomes of calls.

Return(h, v, c) == [heap |-> h, kind |-> "return", val |-> v, calls |-> c]
Throw(h, v, c) == [heap |-> h, kind |-> "throw", val |-> v, calls |-> c]
Logged(fn, arg) == [fn |-> fn, arg |-> arg]

\* Ok(t): new Result(t, true)
Ok(h, t) == Return(Append(h, [value |-> t, isOk |-> TRUE]), Ref(Len(h) + 1), <<>>)
\* Fail(f): new Result(f, false)
Fail(h, f) == Return(Append(h, [value |-> f, isOk |-> FALSE]), Ref(Len(h) + 1), <<>>)

\* r.isOk()
isOk(h, self) == h[self].isOk
\* r.isFail()
isFail(h, self) == ~h[self].isOk
\* a variant of ok() that forgets the discriminant
okAny(h, self) == h[self].value
\* r.ok()
ok(h, self) == IF h[self].isOk THEN h[self].value ELSE Null
\* r.fail()
fail(h, self) == IF ~h[self].isOk THEN h[self].value ELSE Null

\* a variant of unwrap() that throws a new Error in place of the stored value
unwrapNewError(h, self) ==
    IF ~h[self].isOk
    THEN Throw(h, Err(0), <<>>)
    ELSE Return(h, h[self].value, <<>>)
\* r.unwrap()
unwrap(h, self) ==
    IF ~h[self].isOk
    THEN Throw(h, h[self].value, <<>>)
    ELSE Return(h, h[self].value, <<>>)

----------------------------------------------------------------------------
\* The callbacks callers pass in.  A callback is a record: a primitive by
\* name, a thunk closed over a value c, or a composite of two primitives.

Fn(name, f, g, c) == [name |-> name, f |-> f, g |-> g, c |-> c]
Prim(name) == Fn(name, "", "", Null)
\* x => g(f(x))
Compose(f, g) == Fn("compose", f, g, Null)
\* x => f(x).andThen(g)
Bind(f, g) == Fn("bind", f, g, Null)
\* () => c     and     () => { throw c }
Const(c) == Fn("const", "", "", c)
Raise(c) == Fn("raise", "", "", c)
\* a promise: state is "pending", "fulfilled" or "rejected", v the value or
\* reason it settled with
Promise(state, v) == [k |-> state, n |-> 0, xs |-> <<v>>]
IsPromise(x) == x.k \in {"pending", "fulfilled", "rejected"}
\* () => p, for a promise p in the given state
Async(state, c) == Fn("async", state, "", c)

\* value-to-value callbacks
ValFnNames == {"id", "inc", "boom"}
\* value-to-Result callbacks
ResFnNames == {"okInc", "failId", "boom"}
\* callbacks over T | Error: "toErr" is x => e for an Error e
FreeFnNames == {"id", "inc", "boom", "toErr"}

\* x => typeof x === "number" ? (x + 1) % 2 : 0
Inc(v) == IF v.k = "num" THEN Num((v.n + 1) % 2) ELSE Num(0)

RECURSIVE Call(_, _, _)
RECURSIVE andThen(_, _, _)

\* invoke callback fn with argument x on heap h
Call(h, fn, x) ==
    CASE fn.name = "id" -> Return(h, x, <<Logged("id", x)>>)
      [] fn.name = "inc" -> Return(h, Inc(x), <<Logged("inc", x)>>)
      [] fn.name = "boom" -> Throw(h, x, <<Logged("boom", x)>>)
      [] fn.name = "const" -> Return(h, fn.c, <<Logged("const", x)>>)
      [] fn.name = "raise" -> Throw(h, fn.c, <<Logged("raise", x)>>)
      [] fn.name = "async" -> Return(h, Promise(fn.f, fn.c), <<Logged("async", x)>>)
      [] fn.name = "toErr" -> Return(h, Err(1), <<Logged("toErr", x)>>)
      [] fn.name = "count" ->
            IF x \in {Undefined, Null} THEN Throw(h, TypeError, <<Logged("count", x)>>)
            ELSE Return(h, IF x = Foo THEN Num(3) ELSE Undefined, <<Logged("count", x)>>)
      [] fn.name = "okInc" ->
            [Ok(h, Inc(x)) EXCEPT !.calls = <<Logged("okInc", x)>>]
      [] fn.name = "failId" ->
            [Fail(h, x) EXCEPT !.calls = <<Logged("failId", x)>>]
      [] fn.name = "compose" ->
            LET a == Call(h, Prim(fn.f), x) IN
            IF a.kind = "throw" THEN a
            ELSE LET b == Call(a.heap, Prim(fn.g), a.val) IN
                 [b EXCEPT !.calls = a.calls \o b.calls]
      [] fn.name = "bind" ->
            LET a == Call(h, Prim(fn.f), x) IN
            IF a.kind = "throw" THEN a
            ELSE LET b == andThen(a.heap, a.val.n, Prim(fn.g)) IN
                 [b EXCEPT !.calls = a.calls \o b.calls]

\* a variant of map() that does not look at the discriminant
mapAlways(h, self, op) ==
    LET c == Call(h, op, h[self].value) IN
    IF c.kind = "throw" THEN c
    ELSE [Ok(c.heap, c.val) EXCEPT !.calls = c.calls]
\* r.map(op)
map(h, self, op) ==
    IF h[self].isOk
    THEN LET c == Call(h, op, h[self].value) IN
         IF c.kind = "throw" THEN c
         ELSE [Ok(c.heap, c.val) EXCEPT !.calls = c.calls]
    ELSE Return(h, Ref(self), <<>>)

\* a variant of mapFail() that overwrites the receiver and returns it
mapFailInPlace(h, self, op) ==
    IF ~h[self].isOk
    THEN LET c == Call(h, op, h[self].value) IN
         IF c.kind = "throw" THEN c
         ELSE Return([c.heap EXCEPT ![self].value = c.val], Ref(self), c.calls)
    ELSE Return(h, Ref(self), <<>>)
\* r.mapFail(op)
mapFail(h, self, op) ==
    IF ~h[self].isOk
    THEN LET c == Call(h, op, h[self].value) IN
         IF c.kind = "throw" THEN c
         ELSE [Fail(c.heap, c.val) EXCEPT !.calls = c.calls]
    ELSE Return(h, Ref(self), <<>>)

\* a variant of andThen() that wraps what op returns, as map() does
andThenAsMap(h, self, op) == map(h, self, op)
\* r.andThen(op)
andThen(h, self, op) ==
    IF h[self].isOk
    THEN Call(h, op, h[self].value)
    ELSE Return(h, Ref(self), <<>>)

\* x.and(rhs)
and(h, self, rhs) ==
    IF h[self].isOk THEN Return(h, rhs, <<>>) ELSE Return(h, Ref(self), <<>>)

\* a variant of or() that keeps the receiver whatever its state
orKeepFirst(h, self, rhs) == Return(h, Ref(self), <<>>)
\* x.or(rhs)
or(h, self, rhs) ==
    IF h[self].isOk THEN Return(h, Ref(self), <<>>) ELSE Return(h, rhs, <<>>)

\* a variant of orElse() that does not look at the discriminant
orElseAlways(h, self, op) == Call(h, op, h[self].value)
\* r.orElse(op)
orElse(h, self, op) ==
    IF ~h[self].isOk
    THEN Call(h, op, h[self].value)
    ELSE Return(h, Ref(self), <<>>)

\* r.unwrapOr(optb)
unwrapOr(h, self, optb) ==
    IF h[self].isOk THEN Return(h, h[self].value, <<>>) ELSE Return(h, optb, <<>>)

\* a variant of unwrapOrElse() that calls op without the failure value
unwrapOrElseNoArg(h, self, op) ==
    IF h[self].isOk
    THEN Return(h, h[self].value, <<>>)
    ELSE Call(h, op, Undefined)
\* r.unwrapOrElse(op)
unwrapOrElse(h, self, op) ==
    IF h[self].isOk
    THEN Return(h, h[self].value, <<>>)
    ELSE Call(h, op, h[self].value)

\* a variant of match() that runs both branches and returns the one that
\* belongs to the state
matchBoth(h, self, okFn, failFn) ==
    LET a == Call(h, okFn, h[self].value)
        b == Call(h, failFn, h[self].value)
        r == IF h[self].isOk THEN a ELSE b
    IN  [r EXCEPT !.calls = a.calls \o b.calls]
\* r.match({Ok: okFn, Fail: failFn})
match(h, self, okFn, failFn) ==
    IF h[self].isOk
    THEN Call(h, okFn, h[self].value)
    ELSE Call(h, failFn, h[self].value)

\* the strings of the test's parseVersion
InvalidHeaderLength == Str(1)
InvalidVersion == Str(2)
\* parseVersion(header) of the test: a switch on header[0], which is
\* undefined for the empty array
parseVersion(h, header) ==
    LET first == IF Len(header) >= 1 THEN header[1] ELSE Undefined IN
    CASE first = Null \/ first = Undefined -> Fail(h, InvalidHeaderLength)
      [] first = Num(1) -> Ok(h, Num(1))
      [] first = Num(2) -> Ok(h, Num(2))
      [] OTHER -> Fail(h, InvalidVersion)

\* the body of fromArray's for-of loop from index i on; `collection` is the
\* array built so far and `log` the isFail()/unwrap() calls made on elements
RECURSIVE fromArrayFrom(_, _, _, _, _)
fromArrayFrom(h, results, i, collection, log) ==
    IF i > Len(results)
    THEN [Ok(h, Arr(collection)) EXCEPT !.calls = log]
    ELSE LET result == results[i]
             log1 == Append(log, Logged("isFail", result))
         IN  IF isFail(h, result.n)
             THEN Return(h, result, log1)
             ELSE LET u == unwrap(h, result.n)
                      log2 == Append(log1, Logged("unwrap", result))
                  IN  IF u.kind = "throw"
                      THEN Throw(h, u.val, log2)
                      ELSE fromArrayFrom(h, results, i + 1,
                                         Append(collection, u.val), log2)

\* a variant of fromArray() that scans from the last element to the first
fromArrayBackwards(h, results) ==
    fromArrayFrom(h, [i \in DOMAIN results |-> results[Len(results) + 1 - i]],
                  1, <<>>, <<>>)
\* Result.fromArray(results)
fromArray(h, results) == fromArrayFrom(h, results, 1, <<>>, <<>>)

\* r[key] = v on the entries of an object literal
SetKey(ents, key, v) ==
    IF \E j \in DOMAIN ents : ents[j].n = key
    THEN [j \in DOMAIN ents |-> IF ents[j].n = key THEN Ent(key, v) ELSE ents[j]]
    ELSE Append(ents, Ent(key, v))

\* the body of fromObject's loop over Object.entries(results) from index i on
RECURSIVE fromObjectFrom(_, _, _, _, _)
fromObjectFrom(h, entries, i, r, log) ==
    IF i > Len(entries)
    THEN [Ok(h, Obj(r)) EXCEPT !.calls = log]
    ELSE LET key == entries[i].n
             value == entries[i].xs[1]
         IN  IF IsRef(value)
             THEN LET log1 == Append(log, Logged("isFail", value)) IN
                  IF isFail(h, value.n)
                  THEN Return(h, value, log1)
                  ELSE LET u == unwrap(h, value.n)
                           log2 == Append(log1, Logged("unwrap", value))
                       IN  IF u.kind = "throw"
                           THEN Throw(h, u.val, log2)
                           ELSE fromObjectFrom(h, entries, i + 1,
                                               SetKey(r, key, u.val), log2)
             ELSE fromObjectFrom(h, entries, i + 1, SetKey(r, key, value), log)

\* a variant of fromObject() that treats every entry as a plain value
fromObjectPlain(h, results) == Return(Append(h, [value |-> results, isOk |-> TRUE]),
                                      Ref(Len(h) + 1), <<>>)
\* Result.fromObject(results); results.xs is Object.entries(results)
fromObject(h, results) == fromObjectFrom(h, results.xs, 1, <<>>, <<>>)

\* a variant of wrap() without the try/catch
wrapNoCatch(h, op) ==
    LET c == Call(h, op, Undefined) IN
    IF c.kind = "return"
    THEN [Ok(c.heap, c.val) EXCEPT !.calls = c.calls]
    ELSE c
\* Result.wrap(op)
wrap(h, op) ==
    LET c == Call(h, op, Undefined) IN
    IF c.kind = "return"
    THEN [Ok(c.heap, c.val) EXCEPT !.calls = c.calls]
    ELSE [Fail(c.heap, c.val) EXCEPT !.calls = c.calls]

\* a wrapAsync invocation: the thunk it was given, where it stands ("await":
\* suspended at the await; "done": returned), the promise it awaits and the
\* promise it returned to its caller
Task(op, pc, inner, outer) == [op |-> op, pc |-> pc, inner |-> inner, outer |-> outer]

\* a variant of wrapAsync without the try/catch around op()
wrapAsyncCallNoCatch(h, op) ==
    LET c == Call(h, op, Undefined) IN
    IF c.kind = "throw"
    THEN [heap |-> h,
          task |-> Task(op, "done", Undefined, Promise("rejected", c.val))]
    ELSE [heap |-> h,
          task |-> Task(op, "await",
                        IF IsPromise(c.val) THEN c.val ELSE Promise("fulfilled", c.val),
                        Promise("pending", Undefined))]
\* Result.wrapAsync(op), from the call to the await (or, if op throws, to
\* the return in the catch block)
wrapAsyncCall(h, op) ==
    LET c == Call(h, op, Undefined) IN
    IF c.kind = "throw"
    THEN LET f == Fail(h, c.val) IN
         [heap |-> f.heap,
          task |-> Task(op, "done", Undefined, Promise("fulfilled", f.val))]
    ELSE [heap |-> h,
          task |-> Task(op, "await",
                        IF IsPromise(c.val) THEN c.val ELSE Promise("fulfilled", c.val),
                        Promise("pending", Undefined))]

\* Result.wrapAsync(op), resumed after the awaited promise t.inner has settled
wrapAsyncResume(h, t) ==
    IF t.inner.k = "pending"
    THEN [heap |-> h, task |-> t]
    ELSE LET o == IF t.inner.k = "fulfilled"
                  THEN Ok(h, t.inner.xs[1])
                  ELSE Fail(h, t.inner.xs[1])
         IN  [heap |-> o.heap,
              task |-> Task(t.op, "done", t.inner, Promise("fulfilled", o.val))]

----------------------------------------------------------------------------
\* The free functions over the type Result<T> = T | Error.

\* isOk(result)
free_isOk(result) == result.k # "err"
\* isFail(result)
free_isFail(result) == result.k = "err"

\* ops.reduce(...) of the free function map, from index i on
RECURSIVE free_mapFrom(_, _, _, _, _)
free_mapFrom(h, lhs, ops, i, log) ==
    IF i > Len(ops)
    THEN Return(h, lhs, log)
    ELSE IF free_isOk(lhs)
         THEN LET c == Call(h, ops[i], lhs) IN
              IF c.kind = "throw"
              THEN Throw(c.heap, c.val, log \o c.calls)
              ELSE free_mapFrom(c.heap, c.val, ops, i + 1, log \o c.calls)
         ELSE free_mapFrom(h, lhs, ops, i + 1, log)

\* a variant of the free function map that applies every op, also to an Error
RECURSIVE free_mapAllFrom(_, _, _, _, _)
free_mapAllFrom(h, lhs, ops, i, log) ==
    IF i > Len(ops)
    THEN Return(h, lhs, log)
    ELSE LET c == Call(h, ops[i], lhs) IN
         IF c.kind = "throw"
         THEN Throw(c.heap, c.val, log \o c.calls)
         ELSE free_mapAllFrom(c.heap, c.val, ops, i + 1, log \o c.calls)
free_mapAll(h, result, ops) == free_mapAllFrom(h, result, ops, 1, <<>>)
\* map(result, ...ops)
free_map(h, result, ops) == free_mapFrom(h, result, ops, 1, <<>>)

----------------------------------------------------------------------------
\* Spec: a caller that constructs Results and calls their methods, one call
\* at a time.  The caller keeps at most MaxHeap Result objects.

NoFn == Prim("")
Op(name, self, fn, fn2, arg, list) ==
    [op |-> name, self |-> self, fn |-> fn, fn2 |-> fn2, arg |-> arg, list |-> list]
Idle == Op("idle", 0, NoFn, NoFn, Null, <<>>)
NoRet == [kind |-> "none", val |-> Null]
NoAlt == [kind |-> "none", val |-> Null, calls |-> <<>>]
Bool(b) == [k |-> "bool", n |-> IF b THEN 1 ELSE 0, xs |-> <<>>]

ValFns == {Prim(f) : f \in ValFnNames}
ResFns == {Prim(f) : f \in ResFnNames}
\* the thunks handed to wrap
Thunks == {Const(v) : v \in Vals} \cup {Raise(v) : v \in Vals}
Refs == {Ref(i) : i \in DOMAIN heap}
\* sequences over S of length at most n
SeqsUpTo(S, n) == UNION {[1..m -> S] : m \in 0..n}
\* object literals with keys 1..m, in that order
Objects(S, n) == {Obj([j \in DOMAIN s |-> Ent(j, s[j])]) : s \in SeqsUpTo(S, n)}

\* the step that makes call `l` with outcome `o`
Step(l, o) ==
    /\ heap' = o.heap
    /\ last' = l
    /\ ret' = [kind |-> o.kind, val |-> o.val]
    /\ calls' = o.calls
    /\ alt' = NoAlt
    /\ UNCHANGED <<tasks, opts>>

\* a call of the caller of Spec: it is between calls and has room for the result
Do(l, o) == last.op = "idle" /\ Len(o.heap) <= MaxHeap /\ Step(l, o)

Init ==
    /\ heap = <<>>
    /\ last = Idle
    /\ ret = NoRet
    /\ calls = <<>>
    /\ alt = NoAlt
    /\ tasks = <<>>
    /\ opts = <<>>

DoOk == \E v \in Vals : Do(Op("Ok", 0, NoFn, NoFn, v, <<>>), Ok(heap, v))
DoFail == \E v \in Vals : Do(Op("Fail", 0, NoFn, NoFn, v, <<>>), Fail(heap, v))
DoIsOk == \E r \in DOMAIN heap :
    Do(Op("isOk", r, NoFn, NoFn, Null, <<>>), Return(heap, Bool(isOk(heap, r)), <<>>))
DoIsFail == \E r \in DOMAIN heap :
    Do(Op("isFail", r, NoFn, NoFn, Null, <<>>), Return(heap, Bool(isFail(heap, r)), <<>>))
DoOkValue == \E r \in DOMAIN heap :
    Do(Op("ok", r, NoFn, NoFn, Null, <<>>), Return(heap, ok(heap, r), <<>>))
DoFailValue == \E r \in DOMAIN heap :
    Do(Op("fail", r, NoFn, NoFn, Null, <<>>), Return(heap, fail(heap, r), <<>>))
DoUnwrap == \E r \in DOMAIN heap :
    Do(Op("unwrap", r, NoFn, NoFn, Null, <<>>), unwrap(heap, r))
DoMap == \E r \in DOMAIN heap, f \in ValFns :
    Do(Op("map", r, f, NoFn, Null, <<>>), map(heap, r, f))
DoMapFail == \E r \in DOMAIN heap, f \in ValFns :
    Do(Op("mapFail", r, f, NoFn, Null, <<>>), mapFail(heap, r, f))
DoAnd == \E r \in DOMAIN heap, rhs \in Refs :
    Do(Op("and", r, NoFn, NoFn, rhs, <<>>), and(heap, r, rhs))
DoOr == \E r \in DOMAIN heap, rhs \in Refs \cup Vals :
    Do(Op("or", r, NoFn, NoFn, rhs, <<>>), or(heap, r, rhs))
DoAndThen == \E r \in DOMAIN heap, f \in ResFns :
    Do(Op("andThen", r, f, NoFn, Null, <<>>), andThen(heap, r, f))
DoOrElse == \E r \in DOMAIN heap, f \in ResFns :
    Do(Op("orElse", r, f, NoFn, Null, <<>>), orElse(heap, r, f))
DoUnwrapOr == \E r \in DOMAIN heap, d \in Vals :
    Do(Op("unwrapOr", r, NoFn, NoFn, d, <<>>), unwrapOr(heap, r, d))
DoUnwrapOrElse == \E r \in DOMAIN heap, f \in ValFns :
    Do(Op("unwrapOrElse", r, f, NoFn, Null, <<>>), unwrapOrElse(heap, r, f))
DoMatch == \E r \in DOMAIN heap, f \in ValFns, g \in ValFns :
    Do(Op("match", r, f, g, Null, <<>>), match(heap, r, f, g))
DoFromArray == \E l \in SeqsUpTo(Refs, MaxLen) :
    Do(Op("fromArray", 0, NoFn, NoFn, Null, l), fromArray(heap, l))
\* (objects with plain values among the Results are the inputs of SpecCollect)
DoFromObject == \E o \in Objects(Refs, MaxLen) :
    Do(Op("fromObject", 0, NoFn, NoFn, o, <<>>), fromObject(heap, o))
DoWrap == \E t \in Thunks :
    Do(Op("wrap", 0, t, NoFn, Null, <<>>), wrap(heap, t))

\* the caller is done with the outcome of its last call and goes on
Forget ==
    /\ last.op # "idle"
    /\ last' = Idle
    /\ ret' = NoRet
    /\ calls' = <<>>
    /\ alt' = NoAlt
    /\ UNCHANGED <<heap, tasks, opts>>

Next ==
    \/ DoOk \/ DoFail \/ DoIsOk \/ DoIsFail \/ DoOkValue \/ DoFailValue
    \/ DoUnwrap \/ DoMap \/ DoMapFail \/ DoAnd \/ DoOr \/ DoAndThen \/ DoOrElse
    \/ DoUnwrapOr \/ DoUnwrapOrElse \/ DoMatch
    \/ DoFromArray \/ DoFromObject \/ DoWrap \/ Forget

Spec == Init /\ [][Next]_vars

----------------------------------------------------------------------------
\* SpecCollect: fromArray and fromObject applied once to inputs built from
\* any heap of at most MaxHeap Results.

Cells == [value : Vals, isOk : BOOLEAN]

InitCollect ==
    /\ heap \in SeqsUpTo(Cells, MaxHeap)
    /\ last = Idle
    /\ ret = NoRet
    /\ calls = <<>>
    /\ alt = NoAlt
    /\ tasks = <<>>
    /\ opts = <<>>

CollectArray == \E l \in SeqsUpTo(Refs, MaxLen) :
    last.op = "idle" /\ Step(Op("fromArray", 0, NoFn, NoFn, Null, l), fromArray(heap, l))
CollectObject == \E o \in Objects(Refs \cup Vals, MaxLen) :
    last.op = "idle" /\ Step(Op("fromObject", 0, NoFn, NoFn, o, <<>>), fromObject(heap, o))

NextCollect == CollectArray \/ CollectObject

SpecCollect == InitCollect /\ [][NextCollect]_vars

----------------------------------------------------------------------------
\* SpecLaw: both sides of an algebraic law evaluated, one after the other,
\* on a receiver and two callbacks drawn from the input sets.

FreeFns == {Prim(f) : f \in FreeFnNames}
\* the values of type T | Error
FreeVals == Vals \cup {Err(1), Err(2)}

InitLaw ==
    /\ heap \in {<<c>> : c \in Cells}
    /\ last \in {Op("input", 1, f, g, v, <<>>) :
                    f \in FreeFns \cup ResFns, g \in FreeFns \cup ResFns, v \in FreeVals}
    /\ ret = NoRet
    /\ calls = <<>>
    /\ alt = NoAlt
    /\ tasks = <<>>
    /\ opts = <<>>

\* the outcome of `second` when it follows `first` in one expression
After(first, second) ==
    IF first.kind = "throw" THEN first
    ELSE [second EXCEPT !.calls = first.calls \o second.calls]

\* the step that evaluates the left-hand side with outcome l, then the
\* right-hand side with outcome r
Law(name, l, r) ==
    /\ last.op = "input"
    /\ heap' = r.heap
    /\ last' = [last EXCEPT !.op = name]
    /\ ret' = [kind |-> l.kind, val |-> l.val]
    /\ calls' = l.calls
    /\ alt' = [kind |-> r.kind, val |-> r.val, calls |-> r.calls]
    /\ UNCHANGED <<tasks, opts>>

\* r.map(f).map(g)   and   r.map(x => g(f(x)))
MapLaw ==
    /\ last.fn \in FreeFns /\ last.fn2 \in FreeFns
    /\ LET a == map(heap, last.self, last.fn)
           l == IF a.kind = "throw" THEN a
                ELSE After(a, map(a.heap, a.val.n, last.fn2))
           r == map(l.heap, last.self, Compose(last.fn.name, last.fn2.name))
       IN  Law("map.map", l, r)

\* map(map(v, f), g)   and   map(v, x => g(f(x)))   for the free function
FreeMapLaw ==
    /\ last.fn \in FreeFns /\ last.fn2 \in FreeFns
    /\ LET a == free_map(heap, last.arg, <<last.fn>>)
           l == IF a.kind = "throw" THEN a
                ELSE After(a, free_map(a.heap, a.val, <<last.fn2>>))
           r == free_map(l.heap, last.arg, <<Compose(last.fn.name, last.fn2.name)>>)
       IN  Law("free.map.map", l, r)

\* r.andThen(f).andThen(g)   and   r.andThen(x => f(x).andThen(g))
AndThenLaw ==
    /\ last.fn \in ResFns /\ last.fn2 \in ResFns
    /\ LET a == andThen(heap, last.self, last.fn)
           l == IF a.kind = "throw" THEN a
                ELSE After(a, andThen(a.heap, a.val.n, last.fn2))
           r == andThen(l.heap, last.self, Bind(last.fn.name, last.fn2.name))
       IN  Law("andThen.andThen", l, r)

\* the step that evaluates a chain of two calls: `first` is the outcome of
\* the first link alone, `whole` the outcome of the chain
Chain(name, first, whole) ==
    /\ last.op = "input"
    /\ heap' = whole.heap
    /\ last' = [last EXCEPT !.op = name]
    /\ ret' = [kind |-> whole.kind, val |-> whole.val]
    /\ calls' = whole.calls
    /\ alt' = [kind |-> first.kind, val |-> first.val, calls |-> first.calls]
    /\ UNCHANGED <<tasks, opts>>

\* r.andThen(f).andThen(g)
AndThenChain ==
    /\ last.fn \in ResFns /\ last.fn2 \in ResFns
    /\ LET a == andThen(heap, last.self, last.fn) IN
       Chain("andThen.chain", a,
             IF a.kind = "throw" THEN a
             ELSE After(a, andThen(a.heap, a.val.n, last.fn2)))

\* r.orElse(f).orElse(g)
OrElseChain ==
    /\ last.fn \in ResFns /\ last.fn2 \in ResFns
    /\ LET a == orElse(heap, last.self, last.fn) IN
       Chain("orElse.chain", a,
             IF a.kind = "throw" THEN a
             ELSE After(a, orElse(a.heap, a.val.n, last.fn2)))

NextLaw == MapLaw \/ FreeMapLaw \/ AndThenLaw \/ AndThenChain \/ OrElseChain

SpecLaw == InitLaw /\ [][NextLaw]_vars

----------------------------------------------------------------------------
\* SpecMatch: match() applied once, to a Result drawn from the input sets or
\* to the Result parseVersion returns for a header.

\* the numbers of a header
Bytes == {Num(b) : b \in 0..MaxByte}

InitMatch ==
    /\ heap \in SeqsUpTo(Cells, 1)
    /\ last \in {Op("input", 0, f, g, Null, header) :
                    f \in ValFns, g \in ValFns, header \in SeqsUpTo(Bytes, MaxLen)}
    /\ ret = NoRet
    /\ calls = <<>>
    /\ alt = NoAlt
    /\ tasks = <<>>
    /\ opts = <<>>

\* r.match({Ok: f, Fail: g})
MatchResult == \E r \in DOMAIN heap :
    /\ last.op = "input"
    /\ Step([last EXCEPT !.op = "match", !.self = r], match(heap, r, last.fn, last.fn2))

\* parseVersion(header).match({Ok: f, Fail: g})
MatchVersion ==
    /\ last.op = "input"
    /\ LET p == parseVersion(heap, last.list) IN
       Step([last EXCEPT !.op = "match.parseVersion", !.self = p.val.n],
            match(p.heap, p.val.n, last.fn, last.fn2))

NextMatch == MatchResult \/ MatchVersion

SpecMatch == InitMatch /\ [][NextMatch]_vars

----------------------------------------------------------------------------
\* The class Option, in its two implementations: the class of
\* src/src/options.ts, whose None() holds undefined, and the class of
\* src/unnamed/part_003, whose None() holds the private symbol EMPTY_VALUE.
\* An Option object is a cell of `opts`: the value it holds and the class it
\* is an instance of.  The outcome of a call also carries the Option objects.

\* a reference to the Option object at position i of opts
OptRef(i) == [k |-> "opt", n |-> i, xs |-> <<>>]
IsOpt(v) == v.k = "opt"
\* const EMPTY_VALUE = Symbol("EMPTY_VALUE")
EMPTY_VALUE == [k |-> "symbol", n |-> 0, xs |-> <<>>]
\* new Error(msg)
Error(msg) == [k |-> "err", n |-> 0, xs |-> <<msg>>]
\* the default of unwrap's parameter msg
DefaultUnwrapMessage == Str(3)
\* the two classes, by the file that defines them
Classes == {"options.ts", "part_003"}

Out(h, o, kind, v, c) == [heap |-> h, opts |-> o, kind |-> kind, val |-> v, calls |-> c]

\* const INTERNAL = Symbol("options")
INTERNAL == [k |-> "symbol", n |-> 2, xs |-> <<>>]
\* "Option cannot be constructed directly. Use Option.Some() or Option.None()
\* instead."
CannotConstruct == Str(7)

\* a variant of the constructor without the test of its first argument
Option_newUnguarded(h, o, internal, value) ==
    Out(h, Append(o, [value |-> value, cls |-> "part_003"]), "return",
        OptRef(Len(o) + 1), <<>>)
\* new Option(internal, value) of src/unnamed/part_003; the object of a
\* constructor that throws is never referenced, so it is no cell of opts
Option_new(h, o, internal, value) ==
    IF internal # INTERNAL
    THEN Out(h, o, "throw", Error(CannotConstruct), <<>>)
    ELSE Out(h, Append(o, [value |-> value, cls |-> "part_003"]), "return",
             OptRef(Len(o) + 1), <<>>)

\* Some(value): new Option(value), or new Option(INTERNAL, value)
Some(h, o, cls, value) ==
    IF cls = "part_003"
    THEN Option_new(h, o, INTERNAL, value)
    ELSE Out(h, Append(o, [value |-> value, cls |-> cls]), "return",
             OptRef(Len(o) + 1), <<>>)
\* None(): new Option(), or new Option(INTERNAL, EMPTY_VALUE)
None(h, o, cls) ==
    IF cls = "part_003"
    THEN Option_new(h, o, INTERNAL, EMPTY_VALUE)
    ELSE Out(h, Append(o, [value |-> Undefined, cls |-> cls]), "return",
             OptRef(Len(o) + 1), <<>>)

\* x.isSome()
Option_isSome(o, self) ==
    IF o[self].cls = "options.ts"
    THEN o[self].value # Undefined
    ELSE o[self].value # EMPTY_VALUE
\* x.isNone()
Option_isNone(o, self) ==
    IF o[self].cls = "options.ts"
    THEN o[self].value = Undefined
    ELSE o[self].value = EMPTY_VALUE

\* value instanceof Option, for the class Option of file cls
InstanceOfOption(o, cls, value) == IsOpt(value) /\ o[value.n].cls = cls

\* a variant of Option.from() without the instanceof test
Option_fromWrapAll(h, o, cls, value) ==
    IF value # Undefined /\ value # Null
    THEN Some(h, o, cls, value)
    ELSE None(h, o, cls)
\* Option.from(value)
Option_from(h, o, cls, value) ==
    IF InstanceOfOption(o, cls, value)
    THEN Out(h, o, "return", value, <<>>)
    ELSE IF value # Undefined /\ value # Null
         THEN Some(h, o, cls, value)
         ELSE None(h, o, cls)

\* a variant of unwrap() that ignores the caller's message
Option_unwrapFixedMessage(h, o, self, msg) ==
    IF Option_isSome(o, self)
    THEN Out(h, o, "return", o[self].value, <<>>)
    ELSE Out(h, o, "throw", Error(DefaultUnwrapMessage), <<>>)
\* x.unwrap(msg); msg is undefined when the caller gives none
Option_unwrap(h, o, self, msg) ==
    IF Option_isSome(o, self)
    THEN Out(h, o, "return", o[self].value, <<>>)
    ELSE Out(h, o, "throw",
             Error(IF msg = Undefined THEN DefaultUnwrapMessage ELSE msg), <<>>)

\* n % 2 === 0: null counts as 0, and undefined % 2 is NaN
IsEven(x) == (x.k = "num" /\ x.n % 2 = 0) \/ x = Null

\* the callbacks handed to an Option of class cls: predicates, functions from
\* a value to an Option, and thunks
OptCall(h, o, cls, fn, x) ==
    CASE fn.name = "isEven" -> Out(h, o, "return", Bool(IsEven(x)), <<Logged("isEven", x)>>)
      [] fn.name = "always" -> Out(h, o, "return", Bool(TRUE), <<Logged("always", x)>>)
      [] fn.name = "const" -> Out(h, o, "return", fn.c, <<Logged("const", x)>>)
      [] fn.name = "someInc" ->
            [Some(h, o, cls, Inc(x)) EXCEPT !.calls = <<Logged("someInc", x)>>]
      [] fn.name = "nope" ->
            [None(h, o, cls) EXCEPT !.calls = <<Logged("nope", x)>>]
      [] fn.name = "inc" ->
            Out(h, o, "return",
                IF x.k = "num" THEN Inc(x) ELSE IF x = Null THEN Num(1) ELSE NaN,
                <<Logged("inc", x)>>)
      [] fn.name = "void" -> Out(h, o, "return", Undefined, <<Logged("void", x)>>)

\* x.map(fn)
Option_map(h, o, self, fn) ==
    IF Option_isNone(o, self)
    THEN None(h, o, o[self].cls)
    ELSE LET c == OptCall(h, o, o[self].cls, fn, o[self].value) IN
         [Some(c.heap, c.opts, o[self].cls, c.val) EXCEPT !.calls = c.calls]

\* x.mapOr(def, fn)
Option_mapOr(h, o, self, def, fn) ==
    IF Option_isSome(o, self)
    THEN OptCall(h, o, o[self].cls, fn, o[self].value)
    ELSE Out(h, o, "return", def, <<>>)

\* x.mapOrElse(def, fn)
Option_mapOrElse(h, o, self, def, fn) ==
    IF Option_isSome(o, self)
    THEN OptCall(h, o, o[self].cls, fn, o[self].value)
    ELSE OptCall(h, o, o[self].cls, def, Undefined)

\* x.okOr(fail)
Option_okOr(h, o, self, failure) ==
    LET r == IF Option_isSome(o, self) THEN Ok(h, o[self].value) ELSE Fail(h, failure)
    IN  Out(r.heap, o, "return", r.val, <<>>)

\* x.okOrElse(fn)
Option_okOrElse(h, o, self, fn) ==
    IF Option_isSome(o, self)
    THEN LET r == Ok(h, o[self].value) IN Out(r.heap, o, "return", r.val, <<>>)
    ELSE LET c == OptCall(h, o, o[self].cls, fn, Undefined)
             r == Fail(c.heap, c.val)
         IN  Out(r.heap, c.opts, "return", r.val, c.calls)

\* x.and(rhs)
Option_and(h, o, self, rhs) ==
    IF Option_isSome(o, self)
    THEN Out(h, o, "return", rhs, <<>>)
    ELSE None(h, o, o[self].cls)

\* x.andThen(fn)
Option_andThen(h, o, self, fn) ==
    IF Option_isSome(o, self)
    THEN OptCall(h, o, o[self].cls, fn, o[self].value)
    ELSE None(h, o, o[self].cls)

\* a variant of filter() that calls fn before it looks at the state
Option_filterEager(h, o, self, fn) ==
    LET c == OptCall(h, o, o[self].cls, fn, o[self].value) IN
    IF Option_isSome(o, self) /\ c.val = Bool(TRUE)
    THEN Out(c.heap, c.opts, "return", OptRef(self), c.calls)
    ELSE [None(c.heap, c.opts, o[self].cls) EXCEPT !.calls = c.calls]
\* x.filter(fn)
Option_filter(h, o, self, fn) ==
    IF Option_isSome(o, self)
    THEN LET c == OptCall(h, o, o[self].cls, fn, o[self].value) IN
         IF c.val = Bool(TRUE)
         THEN Out(c.heap, c.opts, "return", OptRef(self), c.calls)
         ELSE [None(c.heap, c.opts, o[self].cls) EXCEPT !.calls = c.calls]
    ELSE None(h, o, o[self].cls)

\* x.or(rhs)
Option_or(h, o, self, rhs) ==
    IF Option_isSome(o, self)
    THEN Out(h, o, "return", OptRef(self), <<>>)
    ELSE Out(h, o, "return", rhs, <<>>)

\* a variant of orElse() that calls fn before it looks at the state
Option_orElseEager(h, o, self, fn) ==
    LET c == OptCall(h, o, o[self].cls, fn, Undefined) IN
    IF Option_isSome(o, self)
    THEN Out(c.heap, c.opts, "return", OptRef(self), c.calls)
    ELSE c
\* x.orElse(fn)
Option_orElse(h, o, self, fn) ==
    IF Option_isSome(o, self)
    THEN Out(h, o, "return", OptRef(self), <<>>)
    ELSE OptCall(h, o, o[self].cls, fn, Undefined)

----------------------------------------------------------------------------
\* SpecOption: one call of the Option API, on Option objects drawn from the
\* input sets.  A program imports Option from one of the two files, so all
\* its Option objects are instances of one class.

\* the values handed to Some() and Option.from()
OptVals == Vals \cup {Undefined}
\* the Option objects of class cls: Some(v) for a value v, and None()
OptCells(cls) ==
    {[value |-> v, cls |-> cls] :
        v \in OptVals \cup {IF cls = "options.ts" THEN Undefined ELSE EMPTY_VALUE}}
OptRefs == {OptRef(i) : i \in DOMAIN opts}
\* the class Option the program imports
Imported == {cls \in Classes : \A i \in DOMAIN opts : opts[i].cls = cls}
\* n => n % 2 === 0   and   () => true
Preds == {Prim("isEven"), Prim("always")}
\* x => Some(inc(x))   and   () => None()
OptFns == {Prim("someInc"), Prim("nope")}
\* () => None()   and   () => y for an Option y
OptThunks == {Prim("nope")} \cup {Const(y) : y \in OptRefs}
\* () => v
ValThunks == {Const(v) : v \in Vals}
\* x => x + 1   and   x => {}
MapFns == {Prim("inc"), Prim("void")}
\* what a caller outside the module can hand to the constructor as its first
\* argument: INTERNAL is not exported
Tokens == OptVals \cup {Sym}
\* "the world is ending"
TheWorldIsEnding == Str(4)
\* the msg argument of unwrap: omitted, or a string
Msgs == {Undefined, TheWorldIsEnding}

InitOption ==
    /\ \E cls \in Classes : opts \in SeqsUpTo(OptCells(cls), MaxOpts)
    /\ heap = <<>>
    /\ last = Idle
    /\ ret = NoRet
    /\ calls = <<>>
    /\ alt = NoAlt
    /\ tasks = <<>>

\* the step that makes call `l` with outcome `out`; `first` is the outcome of
\* the inner call of a nested expression
OptStep(l, out, first) ==
    /\ last.op = "idle"
    /\ heap' = out.heap
    /\ opts' = out.opts
    /\ last' = l
    /\ ret' = [kind |-> out.kind, val |-> out.val]
    /\ calls' = out.calls
    /\ alt' = first
    /\ UNCHANGED tasks

OptSome == \E cls \in Imported, v \in OptVals :
    OptStep(Op("Some", 0, NoFn, NoFn, v, <<>>), Some(heap, opts, cls, v), NoAlt)
OptNone == \E cls \in Imported :
    OptStep(Op("None", 0, NoFn, NoFn, Null, <<>>), None(heap, opts, cls), NoAlt)
OptFrom == \E cls \in Imported, x \in OptVals \cup OptRefs :
    OptStep(Op("from", 0, NoFn, NoFn, x, <<>>), Option_from(heap, opts, cls, x), NoAlt)
\* Option.from(Option.from(x))
OptFromFrom == \E cls \in Imported, x \in OptVals \cup OptRefs :
    LET a == Option_from(heap, opts, cls, x) IN
    OptStep(Op("from.from", 0, NoFn, NoFn, x, <<>>),
            Option_from(a.heap, a.opts, cls, a.val),
            [kind |-> a.kind, val |-> a.val, calls |-> a.calls])
OptUnwrap == \E x \in DOMAIN opts, msg \in Msgs :
    OptStep(Op("unwrap", x, NoFn, NoFn, msg, <<>>), Option_unwrap(heap, opts, x, msg), NoAlt)
OptFilter == \E x \in DOMAIN opts, fn \in Preds :
    OptStep(Op("filter", x, fn, NoFn, Null, <<>>), Option_filter(heap, opts, x, fn), NoAlt)
OptOkOr == \E x \in DOMAIN opts, e \in Vals :
    OptStep(Op("okOr", x, NoFn, NoFn, e, <<>>), Option_okOr(heap, opts, x, e), NoAlt)
OptOkOrElse == \E x \in DOMAIN opts, fn \in ValThunks :
    OptStep(Op("okOrElse", x, fn, NoFn, Null, <<>>), Option_okOrElse(heap, opts, x, fn), NoAlt)
\* Some(v).okOr(e)   and   None().okOr(e)
OptSomeOkOr == \E cls \in Imported, v \in OptVals, e \in Vals :
    LET x == Some(heap, opts, cls, v) IN
    OptStep(Op("Some.okOr", x.val.n, NoFn, NoFn, e, <<v>>),
            Option_okOr(x.heap, x.opts, x.val.n, e), NoAlt)
OptNoneOkOr == \E cls \in Imported, e \in Vals :
    LET x == None(heap, opts, cls) IN
    OptStep(Op("None.okOr", x.val.n, NoFn, NoFn, e, <<>>),
            Option_okOr(x.heap, x.opts, x.val.n, e), NoAlt)
\* Some(v).okOrElse(fn)   and   None().okOrElse(fn)
OptSomeOkOrElse == \E cls \in Imported, v \in OptVals, fn \in ValThunks :
    LET x == Some(heap, opts, cls, v) IN
    OptStep(Op("Some.okOrElse", x.val.n, fn, NoFn, Null, <<v>>),
            Option_okOrElse(x.heap, x.opts, x.val.n, fn), NoAlt)
OptNoneOkOrElse == \E cls \in Imported, fn \in ValThunks :
    LET x == None(heap, opts, cls) IN
    OptStep(Op("None.okOrElse", x.val.n, fn, NoFn, Null, <<>>),
            Option_okOrElse(x.heap, x.opts, x.val.n, fn), NoAlt)
OptAnd == \E x \in DOMAIN opts, y \in OptRefs :
    OptStep(Op("and", x, NoFn, NoFn, y, <<>>), Option_and(heap, opts, x, y), NoAlt)
OptAndThen == \E x \in DOMAIN opts, fn \in OptFns :
    OptStep(Op("andThen", x, fn, NoFn, Null, <<>>), Option_andThen(heap, opts, x, fn), NoAlt)
OptOr == \E x \in DOMAIN opts, y \in OptRefs :
    OptStep(Op("or", x, NoFn, NoFn, y, <<>>), Option_or(heap, opts, x, y), NoAlt)
OptOrElse == \E x \in DOMAIN opts, fn \in OptThunks :
    OptStep(Op("orElse", x, fn, NoFn, Null, <<>>), Option_orElse(heap, opts, x, fn), NoAlt)
\* new Option(internal, v), from outside the module
OptNew == \E internal \in Tokens, v \in OptVals :
    /\ "part_003" \in Imported
    /\ OptStep(Op("new", 0, NoFn, NoFn, internal, <<v>>),
               Option_new(heap, opts, internal, v), NoAlt)
\* Some(v).map(fn)   and   None().map(fn)
OptSomeMap == \E cls \in Imported, v \in OptVals, fn \in MapFns :
    LET x == Some(heap, opts, cls, v) IN
    OptStep(Op("Some.map", x.val.n, fn, NoFn, Null, <<v>>),
            Option_map(x.heap, x.opts, x.val.n, fn), NoAlt)
OptNoneMap == \E cls \in Imported, fn \in MapFns :
    LET x == None(heap, opts, cls) IN
    OptStep(Op("None.map", x.val.n, fn, NoFn, Null, <<>>),
            Option_map(x.heap, x.opts, x.val.n, fn), NoAlt)
OptMapOr == \E x \in DOMAIN opts, d \in Vals, fn \in MapFns :
    OptStep(Op("mapOr", x, fn, NoFn, d, <<>>), Option_mapOr(heap, opts, x, d, fn), NoAlt)
OptMapOrElse == \E x \in DOMAIN opts, def \in ValThunks, fn \in MapFns :
    OptStep(Op("mapOrElse", x, fn, def, Null, <<>>),
            Option_mapOrElse(heap, opts, x, def, fn), NoAlt)

NextOption ==
    \/ OptNew \/ OptSomeMap \/ OptNoneMap \/ OptMapOr \/ OptMapOrElse
    \/ OptSome \/ OptNone \/ OptFrom \/ OptFromFrom \/ OptUnwrap \/ OptFilter
    \/ OptOkOr \/ OptOkOrElse \/ OptAnd \/ OptAndThen \/ OptOr \/ OptOrElse
    \/ OptSomeOkOr \/ OptNoneOkOr \/ OptSomeOkOrElse \/ OptNoneOkOrElse

SpecOption == InitOption /\ [][NextOption]_vars

----------------------------------------------------------------------------
\* pipe of src/src/pipe.ts.  The functions piped through are synchronous
\* (double, inc) or the async double of the test, which returns a new pending
\* promise and resolves it from a timer.  An invocation of the async double
\* is a Task: op the function, inner the argument x it awaits, outer the
\* promise it returned, pc "timer" (setTimeout pending), "await" (suspended
\* at `await x`) or "done".  The promise returned by invocation i is
\* PromiseRef(i).

\* x * 2
Double(x) == IF x.k = "num" THEN Num(2 * x.n) ELSE IF x = Null THEN Num(0) ELSE NaN
PromiseRef(i) == [k |-> "promise", n |-> i, xs |-> <<>>]
\* the promise that `await x` waits for: x itself when x is a promise, and a
\* promise fulfilled with x otherwise
PromiseOf(t, x) ==
    IF x.k = "promise" THEN t[x.n].outer
    ELSE IF IsPromise(x) THEN x
    ELSE Promise("fulfilled", x)

PipeOut(t, kind, v, c) == [tasks |-> t, kind |-> kind, val |-> v, calls |-> c]

\* op(t) for a function handed to pipe
PipeCall(t, op, x) ==
    CASE op.name = "double" -> PipeOut(t, "return", Double(x), <<Logged("double", x)>>)
      [] op.name = "inc" -> PipeOut(t, "return", Inc(x), <<Logged("inc", x)>>)
      [] op.name = "asyncDouble" ->
            PipeOut(Append(t, Task(op, "timer", x, Promise("pending", Undefined))),
                    "return", PromiseRef(Len(t) + 1), <<Logged("asyncDouble", x)>>)

\* opN.reduce((t, op) => op(t), input), from index i on with accumulator acc
RECURSIVE pipeRawFrom(_, _, _, _, _)
pipeRawFrom(t, acc, opN, i, log) ==
    IF i > Len(opN)
    THEN PipeOut(t, "return", acc, log)
    ELSE LET c == PipeCall(t, opN[i], acc) IN
         pipeRawFrom(c.tasks, c.val, opN, i + 1, log \o c.calls)

\* a variant of pipeRaw that applies the functions from the last to the first
pipeRawRight(t, input, opN) ==
    pipeRawFrom(t, input, [i \in DOMAIN opN |-> opN[Len(opN) + 1 - i]], 1, <<>>)
\* pipeRaw(input, ...opN)
pipeRaw(t, input, opN) == pipeRawFrom(t, input, opN, 1, <<>>)

\* a variant of pipe that awaits what a step returns before the next step:
\* the timer of a returned promise has fired and the promise has settled
RECURSIVE pipeAwaitingFrom(_, _, _, _, _)
pipeAwaitingFrom(t, acc, opN, i, log) ==
    IF i > Len(opN)
    THEN PipeOut(t, "return", acc, log)
    ELSE LET c == PipeCall(t, opN[i], acc) IN
         IF c.val.k # "promise"
         THEN pipeAwaitingFrom(c.tasks, c.val, opN, i + 1, log \o c.calls)
         ELSE LET j == c.val.n
                  x == PromiseOf(c.tasks, c.tasks[j].inner)
              IN  IF x.k # "fulfilled"
                  THEN PipeOut(c.tasks, "throw", x.xs[1], log \o c.calls)
                  ELSE pipeAwaitingFrom(
                          [c.tasks EXCEPT ![j].pc = "done",
                                          ![j].outer = Promise("fulfilled", Double(x.xs[1]))],
                          Double(x.xs[1]), opN, i + 1, log \o c.calls)
pipeAwaiting(t, input, opN) == pipeAwaitingFrom(t, input, opN, 1, <<>>)
\* pipe(input, ...opN)
pipe(t, input, opN) == pipeRaw(t, input, opN)

----------------------------------------------------------------------------
\* SpecPipe: one call of pipe on a value and functions drawn from the input
\* sets, and afterwards the event loop: timers fire and suspended async
\* functions resume, one task at a time, after pipe has returned.

PipeFns == {Prim("double"), Prim("inc"), Prim("asyncDouble")}
\* 0, 1, Promise.resolve(1), Promise.reject(1)
PipeInputs == Nums \cup {Promise("fulfilled", Num(1)), Promise("rejected", Num(1))}

InitPipe ==
    /\ heap = <<>>
    /\ last \in {Op("input", 0, NoFn, NoFn, v, opN) :
                    v \in PipeInputs, opN \in SeqsUpTo(PipeFns, MaxSteps)}
    /\ ret = NoRet
    /\ calls = <<>>
    /\ alt = NoAlt
    /\ tasks = <<>>
    /\ opts = <<>>

\* pipe(input, ...opN), from the call to the return: JavaScript runs it to
\* completion before the event loop takes the next task
PipeRun ==
    /\ last.op = "input"
    /\ LET o == pipe(tasks, last.arg, last.list) IN
       /\ tasks' = o.tasks
       /\ last' = [last EXCEPT !.op = "pipe"]
       /\ ret' = [kind |-> o.kind, val |-> o.val]
       /\ calls' = o.calls
    /\ UNCHANGED <<heap, alt, opts>>

\* the timer set by invocation i fires: its callback runs up to `await x`
TimerFire(i) ==
    /\ last.op = "pipe"
    /\ i \in DOMAIN tasks /\ tasks[i].pc = "timer"
    /\ tasks' = [tasks EXCEPT ![i].pc = "await"]
    /\ UNCHANGED <<heap, last, ret, calls, alt, opts>>

\* the callback of invocation i resumes after x has settled: it resolves the
\* returned promise with (await x) * 2, or ends with the rejection of x
AwaitResume(i) ==
    /\ last.op = "pipe"
    /\ i \in DOMAIN tasks /\ tasks[i].pc = "await"
    /\ LET x == PromiseOf(tasks, tasks[i].inner) IN
       /\ x.k # "pending"
       /\ tasks' = [tasks EXCEPT
                       ![i].pc = "done",
                       ![i].outer = IF x.k = "fulfilled"
                                    THEN Promise("fulfilled", Double(x.xs[1]))
                                    ELSE @]
    /\ UNCHANGED <<heap, last, ret, calls, alt, opts>>

EventLoop == \E i \in 1..MaxSteps : TimerFire(i) \/ AwaitResume(i)

NextPipe == PipeRun \/ EventLoop

SpecPipe == InitPipe /\ [][NextPipe]_vars

----------------------------------------------------------------------------
\* More free functions over T | Error: unwrap, unwrapOrElse and getResult.

\* `${e}`: a string is itself; any other value gives a string of its own
StringOf(e) == IF e.k = "str" THEN e ELSE [k |-> "str", n |-> 0, xs |-> <<e>>]

\* unwrap(result): both branches throw
free_unwrap(h, result) ==
    IF ~free_isOk(result) THEN Throw(h, result, <<>>) ELSE Throw(h, result, <<>>)

\* unwrapOrElse(res, op): op is called without an argument
free_unwrapOrElse(h, res, op) ==
    IF free_isOk(res) THEN Return(h, res, <<>>) ELSE Call(h, op, Undefined)

\* a variant of getResult that rethrows what is not an Error
getResultRethrow(h, fn) ==
    LET c == Call(h, fn, Undefined) IN
    IF c.kind = "return" \/ free_isFail(c.val) THEN Return(c.heap, c.val, c.calls)
    ELSE c
\* getResult(fn); a Symbol cannot be converted by `${e}`, which throws a
\* TypeError inside the catch block
getResult(h, fn) ==
    LET c == Call(h, fn, Undefined) IN
    IF c.kind = "return" THEN c
    ELSE IF free_isFail(c.val) THEN Return(c.heap, c.val, c.calls)
    ELSE IF c.val.k = "symbol" THEN Throw(c.heap, TypeError, c.calls)
    ELSE Return(c.heap, Error(StringOf(c.val)), c.calls)

----------------------------------------------------------------------------
\* SpecFree: one call of a free function on a value of type T | Error and a
\* callback drawn from the input sets.

\* the values of type T | Error handed to unwrap and unwrapOrElse;
\* Error(Foo) is Fail("foo")
FreeResults == FreeVals \cup {Error(Foo)}
\* x => x,   x => x.length   and   () => 0
FreeOps == {Prim("id"), Prim("count"), Const(Num(0))}
\* the thunks handed to getResult: they return or throw a value
FreeThunks ==
    {Const(v) : v \in FreeResults \cup {Foo, Sym}}
    \cup {Raise(v) : v \in FreeResults \cup {Foo, Sym}}

InitFree ==
    /\ heap = <<>>
    /\ last \in {Op("input", 0, fn, NoFn, res, <<>>) :
                    fn \in FreeOps \cup FreeThunks, res \in FreeResults}
    /\ ret = NoRet
    /\ calls = <<>>
    /\ alt = NoAlt
    /\ tasks = <<>>
    /\ opts = <<>>

\* the step that calls free function `name` with outcome o
FreeStep(name, o) ==
    /\ last.op = "input"
    /\ Step([last EXCEPT !.op = name], o)

FreeUnwrap == FreeStep("free.unwrap", free_unwrap(heap, last.arg))
FreeUnwrapOrElse ==
    /\ last.fn \in FreeOps
    /\ FreeStep("free.unwrapOrElse", free_unwrapOrElse(heap, last.arg, last.fn))
FreeGetResult ==
    /\ last.fn \in FreeThunks
    /\ FreeStep("getResult", getResult(heap, last.fn))

NextFree == FreeUnwrap \/ FreeUnwrapOrElse \/ FreeGetResult

SpecFree == InitFree /\ [][NextFree]_vars

----------------------------------------------------------------------------
\* Iterable of src/src/iterable.ts.  An Iterable object is a cell of heap with
\* the fields #start, #end and #step.  A generator made by iter() is a cell
\* of tasks: obj the Iterable it was made from, pc "start" (body not entered),
\* "yield" (suspended at `yield i`) or "done", i the loop variable, and out
\* the values it has yielded so far.

Infinity == [k |-> "inf", n |-> 0, xs |-> <<>>]
\* i < end
Less(i, end) == IF end = Infinity THEN TRUE ELSE i.n < end.n

\* new Iterable(start, end, step); an argument that is undefined takes the
\* default of its parameter
Iterable_new(h, start, end, step) ==
    Return(Append(h, [start |-> IF start = Undefined THEN Num(0) ELSE start,
                      end |-> IF end = Undefined THEN Infinity ELSE end,
                      step |-> IF step = Undefined THEN Num(1) ELSE step]),
           Ref(Len(h) + 1), <<>>)
\* range(start, end)
range(h, start, end) == Iterable_new(h, start, end, Undefined)

Gen(obj, pc, i, out) == [obj |-> obj, pc |-> pc, i |-> i, out |-> out]
\* x.iter(): a generator whose body has not started
Iterable_iter(t, self) == Append(t, Gen(self, "start", Undefined, <<>>))

\* a variant of the loop of iter() whose test is i <= end
AdvanceInclusive(cell, pc, i) ==
    LET j == IF pc = "start" THEN cell.start ELSE Num(i.n + cell.step.n) IN
    IF pc = "done" THEN [pc |-> "done", i |-> i]
    ELSE IF cell.end = Infinity \/ j.n <= cell.end.n THEN [pc |-> "yield", i |-> j]
    ELSE [pc |-> "done", i |-> j]
\* the body of iter() from one suspension to the next: `let i = this.#start`
\* when it starts and `i += this.#step` when it resumes, then the test
\* `i < this.#end`, which leads to `yield i` or to the end of the body
Advance(cell, pc, i) ==
    LET j == IF pc = "start" THEN cell.start ELSE Num(i.n + cell.step.n) IN
    IF pc = "done" THEN [pc |-> "done", i |-> i]
    ELSE IF Less(j, cell.end) THEN [pc |-> "yield", i |-> j]
    ELSE [pc |-> "done", i |-> j]

\* the object that next() returns
IterResult(value, done) == [k |-> "iterResult", n |-> IF done THEN 1 ELSE 0, xs |-> <<value>>]
\* g.next() for generator g of tasks t
Generator_next(h, t, g) ==
    LET a == Advance(h[t[g].obj], t[g].pc, t[g].i) IN
    IF a.pc = "yield"
    THEN [tasks |-> [t EXCEPT ![g] = Gen(t[g].obj, "yield", a.i, Append(t[g].out, a.i))],
          kind |-> "return", val |-> IterResult(a.i, FALSE)]
    ELSE [tasks |-> [t EXCEPT ![g] = Gen(t[g].obj, "done", a.i, t[g].out)],
          kind |-> "return", val |-> IterResult(Undefined, TRUE)]

\* a variant of stepBy that leaves the receiver alone and returns a copy
Iterable_stepByCopy(h, self, step) ==
    Return(Append(h, [h[self] EXCEPT !.step = step]), Ref(Len(h) + 1), <<>>)
\* x.stepBy(step)
Iterable_stepBy(h, self, step) ==
    Return([h EXCEPT ![self].step = step], Ref(self), <<>>)

\* the functions handed to map: i => i * 2 and i => i
Apply(fn, i) == IF fn.name = "double" THEN Double(i) ELSE i

\* the run of a loop that has no end: the call does not return
Diverge(h, c) == [heap |-> h, kind |-> "diverge", val |-> Undefined, calls |-> c]
\* the iterations a loop that ends can take, and one more
Fuel == MaxEnd + 1

\* x.map(fn): the for...of loop over this.iter(), with the generator at
\* (pc, i), result the array so far and log the calls of fn so far
RECURSIVE mapFrom(_, _, _, _, _, _, _, _)
mapFrom(h, self, pc, i, fn, result, log, fuel) ==
    LET a == Advance(h[self], pc, i) IN
    IF a.pc = "done" THEN Return(h, Arr(result), log)
    ELSE IF fuel = 0 THEN Diverge(h, log)
    ELSE mapFrom(h, self, a.pc, a.i, fn, Append(result, Apply(fn, a.i)),
                 Append(log, Logged(fn.name, a.i)), fuel - 1)
Iterable_map(h, self, fn) == mapFrom(h, self, "start", Undefined, fn, <<>>, <<>>, Fuel)

----------------------------------------------------------------------------
\* SpecRange and SpecIter: a program makes one Iterable, takes a generator
\* from it, advances it and calls map; in SpecIter it also calls stepBy.
\* In SpecRange a generator that has been taken is advanced until it is done,
\* as a for...of loop does.

\* the arguments of the constructor; undefined stands for an omitted one
Starts == {Num(0), Num(1), Undefined}
Ends == {Num(n) : n \in 0..MaxEnd} \cup {Undefined}
Steps == {Num(n) : n \in (0 - 1)..2}
IterFns == {Prim("double"), Prim("id")}
\* the yields a generator is followed for
MaxYield == MaxEnd + 1

InitIter ==
    /\ heap = <<>>
    /\ last = Idle
    /\ ret = NoRet
    /\ calls = <<>>
    /\ alt = NoAlt
    /\ tasks = <<>>
    /\ opts = <<>>

IterNew == \E start \in Starts, end \in Ends, step \in Steps :
    /\ heap = <<>>
    /\ Step(Op("new", 0, NoFn, NoFn, Null, <<start, end, step>>),
            Iterable_new(heap, start, end, step))
IterRange == \E start \in Starts, end \in Ends :
    /\ heap = <<>>
    /\ Step(Op("range", 0, NoFn, NoFn, Null, <<start, end>>), range(heap, start, end))
IterIter == \E x \in DOMAIN heap :
    /\ tasks = <<>>
    /\ tasks' = Iterable_iter(tasks, x)
    /\ last' = Op("iter", x, NoFn, NoFn, Null, <<>>)
    /\ ret' = [kind |-> "return", val |-> PromiseRef(Len(tasks) + 1)]
    /\ calls' = <<>>
    /\ UNCHANGED <<heap, alt, opts>>
GenNext(g) ==
    /\ g \in DOMAIN tasks
    /\ Len(tasks[g].out) < MaxYield
    /\ LET o == Generator_next(heap, tasks, g) IN
       /\ tasks' = o.tasks
       /\ ret' = [kind |-> o.kind, val |-> o.val]
    /\ last' = Op("next", g, NoFn, NoFn, Null, <<>>)
    /\ calls' = <<>>
    /\ UNCHANGED <<heap, alt, opts>>
IterNext == \E g \in DOMAIN tasks : GenNext(g)
IterMap == \E x \in DOMAIN heap, fn \in IterFns :
    Step(Op("map", x, fn, NoFn, Null, <<>>), Iterable_map(heap, x, fn))
IterStepBy == \E x \in DOMAIN heap, step \in Steps :
    Step(Op("stepBy", x, NoFn, NoFn, step, <<>>), Iterable_stepBy(heap, x, step))

NextRange == IterNew \/ IterRange \/ IterIter \/ IterNext \/ IterMap
NextIter == NextRange \/ IterStepBy

SpecRange == InitIter /\ [][NextRange]_vars /\ WF_vars(IterNext)
SpecIter == InitIter /\ [][NextIter]_vars

----------------------------------------------------------------------------
\* SpecAsync: callers of wrapAsync, the promises their thunks return, and the
\* job queue that resumes a suspended wrapAsync.

\* the thunks handed to wrapAsync: they throw, or return a promise that is
\* pending, fulfilled or rejected
AsyncThunks ==
    {Raise(v) : v \in Vals} \cup {Async("pending", Undefined)}
    \cup {Async("fulfilled", v) : v \in Vals} \cup {Async("rejected", v) : v \in Vals}

AsyncCall == \E op \in AsyncThunks :
    /\ Len(tasks) < MaxTasks
    /\ LET o == wrapAsyncCall(heap, op) IN
       /\ heap' = o.heap
       /\ tasks' = Append(tasks, o.task)
    /\ UNCHANGED <<last, ret, calls, alt, opts>>

\* the promise a thunk returned settles
AsyncSettle == \E i \in DOMAIN tasks, state \in {"fulfilled", "rejected"}, v \in Vals :
    /\ tasks[i].pc = "await" /\ tasks[i].inner.k = "pending"
    /\ tasks' = [tasks EXCEPT ![i].inner = Promise(state, v)]
    /\ UNCHANGED <<heap, last, ret, calls, alt, opts>>

\* the job queue resumes invocation i, whose awaited promise has settled
AsyncResume(i) ==
    /\ i \in DOMAIN tasks
    /\ tasks[i].pc = "await" /\ tasks[i].inner.k # "pending"
    /\ LET o == wrapAsyncResume(heap, tasks[i]) IN
       /\ heap' = o.heap
       /\ tasks' = [tasks EXCEPT ![i] = o.task]
    /\ UNCHANGED <<last, ret, calls, alt, opts>>

AsyncResumeSome == \E i \in 1..MaxTasks : AsyncResume(i)

NextAsync == AsyncCall \/ AsyncSettle \/ AsyncResumeSome

\* a settled promise's reactions are always run by the job queue
SpecAsync ==
    Init /\ [][NextAsync]_vars /\ \A i \in 1..MaxTasks : WF_vars(AsyncResume(i))

----------------------------------------------------------------------------
\* The claims.

Min(S) == CHOOSE m \in S : \A n \in S : m <= n
\* the Result a reference points to
At(v) == heap[v.n]

\* C1: Ok(v) answers isOk() = true, isFail() = false, ok() = v and
\* fail() = null; Fail(e) answers isFail() = true, isOk() = false,
\* fail() = e and ok() = null; of every Result exactly one of isOk(),
\* isFail() is true; ok() and fail() never throw.
C1_Queries ==
    /\ \A r \in DOMAIN heap : isOk(heap, r) # isFail(heap, r)
    /\ last.op = "Ok" =>
          /\ ret.kind = "return" /\ IsRef(ret.val)
          /\ isOk(heap, ret.val.n) /\ ~isFail(heap, ret.val.n)
          /\ ok(heap, ret.val.n) = last.arg
          /\ fail(heap, ret.val.n) = Null
    /\ last.op = "Fail" =>
          /\ ret.kind = "return" /\ IsRef(ret.val)
          /\ isFail(heap, ret.val.n) /\ ~isOk(heap, ret.val.n)
          /\ fail(heap, ret.val.n) = last.arg
          /\ ok(heap, ret.val.n) = Null
    /\ last.op \in {"ok", "fail", "isOk", "isFail"} => ret.kind = "return"
    /\ last.op = "ok" /\ isFail(heap, last.self) => ret.val = Null
    /\ last.op = "fail" /\ isOk(heap, last.self) => ret.val = Null
\* a Fail of a value other than null was constructed
C1_Witness == last.op = "Fail" /\ last.arg = Num(1) /\ ret.kind = "return"

FailsIn(l) == {i \in DOMAIN l : IsRef(l[i]) /\ ~At(l[i]).isOk}
\* the isFail()/unwrap() calls a scan of l makes when it stops at index m
\* (m = Len(l) + 1: it does not stop); plain values are not inspected
RECURSIVE ScanLog(_, _, _)
ScanLog(l, i, m) ==
    IF i > Len(l) \/ i > m THEN <<>>
    ELSE (IF ~IsRef(l[i]) THEN <<>>
          ELSE IF i = m THEN <<Logged("isFail", l[i])>>
          ELSE <<Logged("isFail", l[i]), Logged("unwrap", l[i])>>)
         \o ScanLog(l, i + 1, m)

\* C3: fromArray(list) returns the Fail at the smallest index, as the very
\* same wrapper, and inspects no element after it; with no Fail in the list
\* it returns Ok of the success values in input order (Ok([]) for []).
C3_FromArray ==
    last.op = "fromArray" =>
        LET l == last.list IN
        IF FailsIn(l) # {}
        THEN /\ ret = [kind |-> "return", val |-> l[Min(FailsIn(l))]]
             /\ calls = ScanLog(l, 1, Min(FailsIn(l)))
        ELSE /\ ret.kind = "return" /\ IsRef(ret.val)
             /\ ret.val \notin {l[i] : i \in DOMAIN l}
             /\ At(ret.val) = [value |-> Arr([i \in DOMAIN l |-> At(l[i]).value]),
                               isOk |-> TRUE]
\* a list of two different Fails was collected
C3_Witness ==
    /\ last.op = "fromArray" /\ Len(last.list) = 2
    /\ FailsIn(last.list) = {1, 2}
    /\ At(last.list[1]).value # At(last.list[2]).value
    /\ ret.kind = "return"

\* C4: fromObject(map) returns the first entry, in key order, whose value is
\* a Fail wrapper; otherwise Ok of an object with the same keys, each Ok
\* wrapper replaced by its success value and each plain value kept.
C4_FromObject ==
    last.op = "fromObject" =>
        LET ents == last.arg.xs
            l == [i \in DOMAIN ents |-> ents[i].xs[1]]
        IN  IF FailsIn(l) # {}
            THEN ret = [kind |-> "return", val |-> l[Min(FailsIn(l))]]
            ELSE /\ ret.kind = "return" /\ IsRef(ret.val)
                 /\ At(ret.val).isOk
                 /\ At(ret.val).value =
                       Obj([i \in DOMAIN ents |->
                              Ent(ents[i].n, IF IsRef(l[i]) THEN At(l[i]).value ELSE l[i])])
\* an object holding an Ok wrapper and a plain value was collected
C4_Witness ==
    /\ last.op = "fromObject" /\ Len(last.arg.xs) = 2
    /\ IsRef(last.arg.xs[1].xs[1]) /\ At(last.arg.xs[1].xs[1]).isOk
    /\ last.arg.xs[2].xs[1] = Num(1)
    /\ ret.kind = "return"

\* C5: wrap(op) never throws; it invokes op exactly once and returns Ok(x)
\* when op returns x, and Fail(t) carrying the thrown value t when op throws.
C5_Wrap ==
    last.op = "wrap" =>
        /\ ret.kind = "return" /\ IsRef(ret.val)
        /\ Len(calls) = 1 /\ calls[1].fn = last.fn.name
        /\ last.fn.name = "const" => At(ret.val) = [value |-> last.fn.c, isOk |-> TRUE]
        /\ last.fn.name = "raise" => At(ret.val) = [value |-> last.fn.c, isOk |-> FALSE]
\* wrap() was given a thunk that throws
C5_Witness == last.op = "wrap" /\ last.fn = Raise(Num(1)) /\ ret.kind = "return"

\* C7: a Result is never mutated after construction: whatever call is made,
\* every Result that exists keeps its isOk() answer and its stored value.
C7_Immutable ==
    [][\A r \in DOMAIN heap : r \in DOMAIN heap' /\ heap'[r] = heap[r]]_vars
\* a method computed a new Result from a receiver
C7_Witness ==
    /\ last.op = "mapFail" /\ isFail(heap, last.self)
    /\ last.fn = Prim("inc") /\ ret.kind = "return"

\* C8: map(f) on Ok(v) invokes f exactly once, with v, and returns Ok(f(v));
\* on a Fail it returns the receiver and does not invoke f.  mapFail(f) is
\* the mirror image.
C8_Map ==
    /\ last.op \in {"map", "mapFail"} =>
          LET r == last.self
              c == Call(heap, last.fn, heap[r].value)
          IN  IF isOk(heap, r) = (last.op = "map")
              THEN /\ calls = <<Logged(last.fn.name, heap[r].value)>>
                   /\ IF c.kind = "throw"
                      THEN ret = [kind |-> "throw", val |-> c.val]
                      ELSE /\ ret.kind = "return" /\ IsRef(ret.val)
                           /\ ret.val.n # r
                           /\ At(ret.val) = [value |-> c.val, isOk |-> last.op = "map"]
              ELSE /\ calls = <<>>
                   /\ ret = [kind |-> "return", val |-> Ref(r)]
\* map() was called on a Fail, and on an Ok with a function that changes it
C8_Witness ==
    /\ last.op = "map" /\ isOk(heap, last.self) /\ last.fn = Prim("inc")
    /\ heap[last.self].value = Num(1) /\ ret.kind = "return"

\* the promise returned by wrapAsync invocation t is as the claim C6 says
C6_Settles(t) ==
    /\ t.outer.k # "rejected"
    /\ t.op.name = "raise" => t.outer.k = "fulfilled"
    /\ t.outer.k = "fulfilled" =>
          /\ IsRef(t.outer.xs[1])
          /\ IF t.op.name = "raise"
             THEN At(t.outer.xs[1]) = [value |-> t.op.c, isOk |-> FALSE]
             ELSE /\ t.inner.k \in {"fulfilled", "rejected"}
                  /\ At(t.outer.xs[1]) =
                        [value |-> t.inner.xs[1], isOk |-> t.inner.k = "fulfilled"]
\* C6: the promise wrapAsync(op) returns never rejects; it settles only after
\* the promise returned by op has settled, with Ok(x) if that one fulfils
\* with x and Fail(r) if it rejects with r or if op throws; while op's
\* promise is pending it stays pending, and once op's promise has settled it
\* settles.
C6_WrapAsync ==
    /\ [](\A i \in DOMAIN tasks : C6_Settles(tasks[i]))
    /\ \A i \in 1..MaxTasks :
          (i \in DOMAIN tasks /\ tasks[i].inner.k \in {"fulfilled", "rejected"})
             ~> (i \in DOMAIN tasks /\ tasks[i].outer.k = "fulfilled")
\* a wrapAsync whose thunk's promise was pending and then rejected has settled
C6_Witness ==
    \E i \in DOMAIN tasks :
        /\ tasks[i].op = Async("pending", Undefined)
        /\ tasks[i].inner = Promise("rejected", Num(1))
        /\ tasks[i].outer.k = "fulfilled"

\* two outcomes are the same to an observer: both return or both throw, and
\* the Results returned agree in state and carried value
Same(a, b) ==
    /\ a.kind = b.kind
    /\ IF IsRef(a.val) /\ IsRef(b.val) THEN At(a.val) = At(b.val) ELSE a.val = b.val

\* C9 as stated: the composition law map(map(r, f), g) = map(r, x => g(f(x)))
\* holds of Result.map and of the free function map, for all r, f, g.
C9_BothMaps == last.op \in {"map.map", "free.map.map"} => Same(ret, alt)

\* C9 as amended: the composition law holds of Result.map for all r, f, g;
\* of the free function map it holds unless r is a success and f returns an
\* Error e for it, and then map(map(r, f), g) is e, with g not invoked, while
\* map(r, x => g(f(x))) is the outcome of g(e).
C9_MapComposition ==
    /\ last.op = "map.map" => Same(ret, alt)
    /\ last.op = "free.map.map" =>
          LET fv == Call(heap, last.fn, last.arg) IN
          IF free_isOk(last.arg) /\ fv.kind = "return" /\ free_isFail(fv.val)
          THEN /\ ret = [kind |-> "return", val |-> fv.val]
               /\ calls = fv.calls
               /\ LET gv == Call(heap, last.fn2, fv.val) IN
                  alt.kind = gv.kind /\ alt.val = gv.val
          ELSE Same(ret, alt)
\* the free function map was applied to a success with two functions that
\* change it
C9_Witness ==
    /\ last.op = "free.map.map" /\ last.arg = Num(0)
    /\ last.fn = Prim("inc") /\ last.fn2 = Prim("inc")
    /\ ret = [kind |-> "return", val |-> Num(0)]

\* the number of invocations of callback `name` in a log
Count(log, name) == Cardinality({j \in DOMAIN log : log[j].fn = name})

\* C10: r.andThen(f).andThen(g) and r.andThen(x => f(x).andThen(g)) agree in
\* state and carried value, and invoke f and g the same number of times.
C10_AndThenAssoc ==
    last.op = "andThen.andThen" =>
        /\ Same(ret, alt)
        /\ \A name \in ResFnNames : Count(calls, name) = Count(alt.calls, name)
\* both sides were evaluated on an Ok, with f succeeding and g failing
C10_Witness ==
    /\ last.op = "andThen.andThen" /\ heap[last.self] = [value |-> Num(0), isOk |-> TRUE]
    /\ last.fn = Prim("okInc") /\ last.fn2 = Prim("failId")
    /\ ret.kind = "return" /\ At(ret.val) = [value |-> Num(1), isOk |-> FALSE]

\* what the claim C11 says of one link: op(value) when the receiver is in
\* the state the method acts on, the receiver itself and no call otherwise
C11_Link(h, self, op, onOk) ==
    IF h[self].isOk = onOk
    THEN Call(h, op, h[self].value)
    ELSE Return(h, Ref(self), <<>>)
\* C11: andThen(f) is f(v) on Ok(v), and the receiver itself, f not invoked,
\* on a Fail; orElse(f) is f(e) on Fail(e), and the receiver itself, f not
\* invoked, on an Ok; a chain of andThen ends with its first failure and a
\* chain of orElse with its first success, later callbacks not invoked.
C11_Chaining ==
    last.op \in {"andThen.chain", "orElse.chain"} =>
        LET onOk == last.op = "andThen.chain"
            first == C11_Link(<<heap[1]>>, last.self, last.fn, onOk)
        IN  /\ alt = [kind |-> first.kind, val |-> first.val, calls |-> first.calls]
            /\ heap[1].isOk # onOk => alt = [kind |-> "return", val |-> Ref(1), calls |-> <<>>]
            /\ IF first.kind = "throw"
               THEN ret = [kind |-> "throw", val |-> first.val] /\ calls = first.calls
               ELSE IF first.heap[first.val.n].isOk # onOk
                    THEN ret = [kind |-> "return", val |-> first.val] /\ calls = first.calls
                    ELSE LET second == Call(first.heap, last.fn2,
                                            first.heap[first.val.n].value)
                         IN  /\ ret = [kind |-> second.kind, val |-> second.val]
                             /\ calls = first.calls \o second.calls
\* Fail(0).orElse(okInc).orElse(failId) ended with the Ok of the first link
C11_Witness ==
    /\ last.op = "orElse.chain" /\ heap[1] = [value |-> Num(0), isOk |-> FALSE]
    /\ last.fn = Prim("okInc") /\ last.fn2 = Prim("failId")
    /\ ret = [kind |-> "return", val |-> Ref(2)] /\ At(Ref(2)).isOk
    /\ calls = <<Logged("okInc", Num(0))>>

\* C12: x.and(y) is y itself when x is Ok and x itself when x is Fail;
\* x.or(y) is x itself when x is Ok and y itself when x is Fail.  So and()
\* yields the left failure if there is one and or() the left success; of two
\* Fails and() keeps the first and or() the second.
C12_AndOr ==
    /\ last.op \in {"and", "or"} => ret.kind = "return" /\ calls = <<>>
    /\ last.op = "and" =>
          ret.val = IF isOk(heap, last.self) THEN last.arg ELSE Ref(last.self)
    /\ last.op = "or" =>
          ret.val = IF isOk(heap, last.self) THEN Ref(last.self) ELSE last.arg
    /\ /\ last.op \in {"and", "or"} /\ isFail(heap, last.self)
       /\ IsRef(last.arg) /\ isFail(heap, last.arg.n)
       => ret.val = IF last.op = "and" THEN Ref(last.self) ELSE last.arg
\* or() was called on a Fail with another Fail and returned the second
C12_Witness ==
    /\ last.op = "or" /\ isFail(heap, last.self)
    /\ IsRef(last.arg) /\ last.arg.n # last.self /\ isFail(heap, last.arg.n)
    /\ At(last.arg).value # heap[last.self].value
    /\ ret = [kind |-> "return", val |-> last.arg]

\* C13: unwrapOr(d) returns v on Ok(v) and d on a Fail, and never throws;
\* unwrapOrElse(f) returns v on Ok(v) without invoking f, and on Fail(e)
\* invokes f exactly once, with e, and returns f(e).
C13_Defaults ==
    /\ last.op = "unwrapOr" =>
          /\ calls = <<>>
          /\ ret = [kind |-> "return",
                    val |-> IF isOk(heap, last.self) THEN heap[last.self].value
                            ELSE last.arg]
    /\ last.op = "unwrapOrElse" =>
          IF isOk(heap, last.self)
          THEN /\ calls = <<>>
               /\ ret = [kind |-> "return", val |-> heap[last.self].value]
          ELSE LET c == Call(heap, last.fn, heap[last.self].value) IN
               /\ calls = <<Logged(last.fn.name, heap[last.self].value)>>
               /\ ret = [kind |-> c.kind, val |-> c.val]
\* unwrapOrElse() computed the fallback from the failure value of a Fail
C13_Witness ==
    /\ last.op = "unwrapOrElse" /\ heap[last.self] = [value |-> Num(0), isOk |-> FALSE]
    /\ last.fn = Prim("inc") /\ ret = [kind |-> "return", val |-> Num(1)]

\* C14: match({Ok, Fail}) invokes exactly one branch, the one of the
\* receiver's state, with the stored value, and returns its result; with
\* identity branches parseVersion(header).match gives 1 for a header that
\* starts with 1, 2 for one that starts with 2, "invalid version" for any
\* other first byte and "invalid header length" for the empty header.
C14_Match ==
    /\ last.op \in {"match", "match.parseVersion"} =>
          LET v == heap[last.self].value
              branch == IF isOk(heap, last.self) THEN last.fn ELSE last.fn2
              c == Call(heap, branch, v)
          IN  /\ calls = <<Logged(branch.name, v)>>
              /\ ret = [kind |-> c.kind, val |-> c.val]
    /\ /\ last.op = "match.parseVersion"
       /\ last.fn = Prim("id") /\ last.fn2 = Prim("id")
       => ret = [kind |-> "return",
                 val |-> IF last.list = <<>> THEN InvalidHeaderLength
                         ELSE IF last.list[1] = Num(1) THEN Num(1)
                         ELSE IF last.list[1] = Num(2) THEN Num(2)
                         ELSE InvalidVersion]
\* a header starting with 3 was parsed and matched with identity branches
C14_Witness ==
    /\ last.op = "match.parseVersion" /\ Len(last.list) = 2 /\ last.list[1] = Num(3)
    /\ last.fn = Prim("id") /\ last.fn2 = Prim("id")
    /\ ret = [kind |-> "return", val |-> InvalidVersion]

\* C15: presence does not depend on the stored value: for every v, undefined
\* and null included, Some(v).isSome() is true, Some(v).isNone() is false
\* and Some(v).unwrap() returns v; only an Option built by None() is absent.
C15_Presence ==
    /\ last.op = "Some" =>
          /\ ret.kind = "return" /\ IsOpt(ret.val)
          /\ Option_isSome(opts, ret.val.n)
          /\ ~Option_isNone(opts, ret.val.n)
          /\ Option_unwrap(heap, opts, ret.val.n, Undefined)
                = Out(heap, opts, "return", last.arg, <<>>)
    /\ last.op = "None" =>
          /\ ret.kind = "return" /\ IsOpt(ret.val)
          /\ Option_isNone(opts, ret.val.n) /\ ~Option_isSome(opts, ret.val.n)

\* C16: Option.from(x) never throws; it returns x itself when x is already an
\* Option, an absent Option when x is null or undefined, and Some(x)
\* otherwise; Option.from(Option.from(x)) is the Option that Option.from(x)
\* returned.
C16_From ==
    last.op \in {"from", "from.from"} =>
        LET x == last.arg
            first == IF last.op = "from" THEN ret ELSE alt
        IN  /\ ret.kind = "return" /\ first.kind = "return"
            /\ IsOpt(first.val)
            /\ IF IsOpt(x) THEN first.val = x
               ELSE IF x \in {Null, Undefined}
                    THEN Option_isNone(opts, first.val.n)
                    ELSE /\ Option_isSome(opts, first.val.n)
                         /\ opts[first.val.n].value = x
            /\ ret.val = first.val
\* Option.from(Option.from(1)) was evaluated and is the Some(1) of the inner call
C16_Witness ==
    /\ last.op = "from.from" /\ last.arg = Num(1)
    /\ ret = [kind |-> "return", val |-> alt.val]
    /\ IsOpt(ret.val) /\ opts[ret.val.n].value = Num(1)
    /\ Option_isSome(opts, ret.val.n)

\* C17: unwrap(msg) on a present Option returns the held value and does not
\* throw; on an absent Option it throws an Error whose message is msg when
\* the caller gave one and the fixed default message otherwise.
C17_OptionUnwrap ==
    last.op = "unwrap" /\ last.self \in DOMAIN opts =>
        IF Option_isSome(opts, last.self)
        THEN ret = [kind |-> "return", val |-> opts[last.self].value]
        ELSE /\ ret.kind = "throw" /\ ret.val.k = "err"
             /\ ret.val.xs = <<IF last.arg = Undefined THEN DefaultUnwrapMessage
                                ELSE last.arg>>
\* unwrap("the world is ending") was called on an absent Option and threw
C17_Witness ==
    /\ last.op = "unwrap" /\ last.self \in DOMAIN opts
    /\ Option_isNone(opts, last.self) /\ last.arg = TheWorldIsEnding
    /\ ret = [kind |-> "throw", val |-> Error(TheWorldIsEnding)]

\* C18: filter(p) on a present Option holding v invokes p exactly once, with
\* v, and returns the receiver itself when p(v) is true and None otherwise;
\* on an absent Option it returns None and does not invoke p.
C18_Filter ==
    last.op = "filter" =>
        LET x == last.self
            v == opts[x].value
            holds == OptCall(heap, opts, opts[x].cls, last.fn, v).val = Bool(TRUE)
        IN  /\ ret.kind = "return" /\ IsOpt(ret.val)
            /\ IF Option_isSome(opts, x)
               THEN /\ calls = <<Logged(last.fn.name, v)>>
                    /\ IF holds THEN ret.val = OptRef(x)
                       ELSE ret.val # OptRef(x) /\ Option_isNone(opts, ret.val.n)
               ELSE /\ calls = <<>>
                    /\ Option_isNone(opts, ret.val.n)
\* filter(isEven) was called on Some(1) and returned None
C18_Witness ==
    /\ last.op = "filter" /\ last.fn = Prim("isEven")
    /\ opts[last.self].value = Num(1)
    /\ calls = <<Logged("isEven", Num(1))>>
    /\ ret.kind = "return" /\ IsOpt(ret.val) /\ Option_isNone(opts, ret.val.n)

\* C19: Some(v).okOr(e) and Some(v).okOrElse(fn) are Ok(v), and fn is not
\* invoked; None().okOr(e) is Fail(e); None().okOrElse(fn) invokes fn exactly
\* once and is Fail(fn()).
C19_OkOr ==
    /\ last.op \in {"Some.okOr", "Some.okOrElse", "None.okOr", "None.okOrElse"} =>
          ret.kind = "return" /\ IsRef(ret.val)
    /\ last.op \in {"Some.okOr", "Some.okOrElse"} =>
          /\ At(ret.val) = [value |-> last.list[1], isOk |-> TRUE]
          /\ calls = <<>>
    /\ last.op = "None.okOr" =>
          At(ret.val) = [value |-> last.arg, isOk |-> FALSE]
    /\ last.op = "None.okOrElse" =>
          /\ calls = <<Logged("const", Undefined)>>
          /\ At(ret.val) = [value |-> last.fn.c, isOk |-> FALSE]

\* res is the Option that callback fn returns when invoked with v
C20_Returned(fn, v, res) ==
    /\ IsOpt(res)
    /\ fn.name = "someInc" =>
          Option_isSome(opts, res.n) /\ opts[res.n].value = Inc(v)
    /\ fn.name = "nope" => Option_isNone(opts, res.n)
    /\ fn.name = "const" => res = fn.c
\* C20: x.and(y) is None when x is absent and y itself otherwise;
\* x.andThen(f) is None, f not invoked, when x is absent, and f(v) when x
\* holds v; x.or(y) is x itself when x is present and y itself otherwise;
\* x.orElse(f) is x itself, f not invoked, when x is present, and f() when x
\* is absent.
C20_OptionCombinators ==
    last.op \in {"and", "andThen", "or", "orElse"} /\ last.self \in DOMAIN opts =>
        LET x == last.self
            present == Option_isSome(opts, x)
        IN  /\ ret.kind = "return" /\ IsOpt(ret.val)
            /\ last.op = "and" =>
                  /\ calls = <<>>
                  /\ IF present THEN ret.val = last.arg
                     ELSE ret.val \notin {OptRef(x), last.arg}
                          /\ Option_isNone(opts, ret.val.n)
            /\ last.op = "andThen" =>
                  IF present
                  THEN /\ calls = <<Logged(last.fn.name, opts[x].value)>>
                       /\ C20_Returned(last.fn, opts[x].value, ret.val)
                  ELSE /\ calls = <<>>
                       /\ ret.val # OptRef(x) /\ Option_isNone(opts, ret.val.n)
            /\ last.op = "or" =>
                  /\ calls = <<>>
                  /\ ret.val = IF present THEN OptRef(x) ELSE last.arg
            /\ last.op = "orElse" =>
                  IF present
                  THEN calls = <<>> /\ ret.val = OptRef(x)
                  ELSE /\ calls = <<Logged(last.fn.name, Undefined)>>
                       /\ C20_Returned(last.fn, Undefined, ret.val)
\* orElse(() => y) was called on an absent Option and returned the present y
C20_Witness ==
    /\ last.op = "orElse" /\ last.self \in DOMAIN opts
    /\ Option_isNone(opts, last.self)
    /\ last.fn.name = "const" /\ IsOpt(last.fn.c) /\ last.fn.c.n # last.self
    /\ Option_isSome(opts, last.fn.c.n)
    /\ ret = [kind |-> "return", val |-> last.fn.c]

\* what the i-th function of the piped list returned, told from the argument
\* it was invoked with: a value for a synchronous function, and for the
\* async double the promise of its invocation
C21_StepResult(i) ==
    LET op == last.list[i]
        x == calls[i].arg
    IN  CASE op.name = "double" -> Double(x)
          [] op.name = "inc" -> Inc(x)
          [] op.name = "asyncDouble" ->
                PromiseRef(Cardinality({j \in 1..i : last.list[j].name = "asyncDouble"}))
\* C21: pipe(v, f1, ..., fn) invokes f1, f2, ..., fn, each exactly once and
\* in that order, f1 with v and every other with what the one before it
\* returned, and returns what fn returned (v when there is no function);
\* pipe(1, double, double, double, double) is 16.
C21_PipeFold ==
    last.op = "pipe" =>
        LET opN == last.list IN
        /\ ret.kind = "return"
        /\ Len(calls) = Len(opN)
        /\ \A i \in DOMAIN opN :
              /\ calls[i].fn = opN[i].name
              /\ calls[i].arg = IF i = 1 THEN last.arg ELSE C21_StepResult(i - 1)
        /\ ret.val = IF opN = <<>> THEN last.arg ELSE C21_StepResult(Len(opN))
        /\ (last.arg = Num(1) /\ opN = [i \in 1..4 |-> Prim("double")])
              => ret.val = Num(16)
\* pipe(1, double, double, double, double) was evaluated
C21_Witness ==
    /\ last.op = "pipe" /\ last.arg = Num(1)
    /\ last.list = [i \in 1..4 |-> Prim("double")]
    /\ ret = [kind |-> "return", val |-> Num(16)]

\* C22: pipe does not await between steps: at the moment pipe returns, every
\* promise a step returned is still pending and its timer has not fired;
\* the step after one that returned a promise was invoked with that very
\* promise, and pipe returns what the last step returned.
C22_NoAwait ==
    [][last.op = "input" /\ last'.op = "pipe" =>
         LET opN == last.list IN
         /\ \A j \in DOMAIN tasks' :
               tasks'[j].pc = "timer" /\ tasks'[j].outer.k = "pending"
         /\ Len(calls') = Len(opN)
         /\ \A i \in DOMAIN opN :
               opN[i].name = "asyncDouble" =>
                  LET p == IF i = Len(opN) THEN ret'.val ELSE calls'[i + 1].arg IN
                  /\ p.k = "promise" /\ p.n \in DOMAIN tasks'
                  /\ tasks'[p.n].inner = calls'[i].arg
                  /\ \A m \in DOMAIN opN :
                        (m # i /\ opN[m].name = "asyncDouble") =>
                           p # (IF m = Len(opN) THEN ret'.val ELSE calls'[m + 1].arg)
    ]_vars
\* pipe(Promise.resolve(1), double, double) with the async double has
\* returned the promise of the second step, and no timer has fired yet
C22_Witness ==
    /\ last.op = "pipe" /\ last.arg = Promise("fulfilled", Num(1))
    /\ last.list = <<Prim("asyncDouble"), Prim("asyncDouble")>>
    /\ ret = [kind |-> "return", val |-> PromiseRef(2)]
    /\ calls[2].arg = PromiseRef(1)
    /\ Len(tasks) = 2
    /\ \A j \in DOMAIN tasks : tasks[j].pc = "timer" /\ tasks[j].outer.k = "pending"

\* C23: the free function unwrap(result) returns the success value when
\* result is Ok, and throws the Error itself only when result is a Fail.
C23_FreeUnwrap ==
    last.op = "free.unwrap" =>
        IF free_isOk(last.arg)
        THEN ret = [kind |-> "return", val |-> last.arg]
        ELSE ret = [kind |-> "throw", val |-> last.arg]

\* C24: the free function unwrapOrElse(res, op) returns res without invoking
\* op when res is Ok, and when res is a Fail it invokes op with the failure
\* value and returns what op returns.
C24_FreeUnwrapOrElse ==
    last.op = "free.unwrapOrElse" =>
        IF free_isOk(last.arg)
        THEN calls = <<>> /\ ret = [kind |-> "return", val |-> last.arg]
        ELSE LET c == Call(heap, last.fn, last.arg) IN
             /\ calls = <<Logged(last.fn.name, last.arg)>>
             /\ ret = [kind |-> c.kind, val |-> c.val]

C26_Constructor ==
    [][/\ last'.op = "new" =>
            /\ last'.arg # INTERNAL
            /\ ret' = [kind |-> "throw", val |-> Error(CannotConstruct)]
            /\ opts' = opts
       /\ Len(opts') > Len(opts) => last'.op # "new"]_vars
\* the constructor was called with a Symbol of the caller's and threw
C26_Witness ==
    /\ last.op = "new" /\ last.arg = Sym
    /\ ret = [kind |-> "throw", val |-> Error(CannotConstruct)]

\* f(v) for a function f of MapFns
C27_Apply(fn, v) == OptCall(<<>>, <<>>, "part_003", fn, v).val

\* C27: Some(v).map(f) is Some(f(v)), f invoked once with v; None().map(f)
\* is None and f is not invoked; mapOr(d, f) is f(v) when present and d when
\* absent; mapOrElse(def, f) invokes exactly one of the two, f with the value
\* when present and def with no argument when absent, and returns its result.
C27_MapFamily ==
    /\ last.op = "Some.map" =>
          /\ ret.kind = "return" /\ IsOpt(ret.val)
          /\ opts[ret.val.n].value = C27_Apply(last.fn, last.list[1])
          /\ calls = <<Logged(last.fn.name, last.list[1])>>
    /\ last.op = "None.map" =>
          /\ ret.kind = "return" /\ IsOpt(ret.val)
          /\ Option_isNone(opts, ret.val.n)
          /\ calls = <<>>
    /\ last.op = "mapOr" =>
          IF Option_isSome(opts, last.self)
          THEN /\ ret = [kind |-> "return",
                         val |-> C27_Apply(last.fn, opts[last.self].value)]
               /\ calls = <<Logged(last.fn.name, opts[last.self].value)>>
          ELSE ret = [kind |-> "return", val |-> last.arg] /\ calls = <<>>
    /\ last.op = "mapOrElse" =>
          IF Option_isSome(opts, last.self)
          THEN /\ ret = [kind |-> "return",
                         val |-> C27_Apply(last.fn, opts[last.self].value)]
               /\ calls = <<Logged(last.fn.name, opts[last.self].value)>>
          ELSE /\ ret = [kind |-> "return", val |-> last.fn2.c]
               /\ calls = <<Logged("const", Undefined)>>

\* C25: stepBy(step) throws when step is 0 or less than zero, and the
\* Iterable it returns otherwise has a step that advances the iteration.
C25_StepByThrows ==
    last.op = "stepBy" =>
        IF last.arg.n <= 0
        THEN ret.kind = "throw"
        ELSE ret.kind = "return" /\ heap[last.self].step.n > 0

\* the number of values start, start + step, ... below end
C29_Count(cell) ==
    IF cell.start.n >= cell.end.n THEN 0
    ELSE ((cell.end.n - cell.start.n - 1) \div cell.step.n) + 1
\* start, start + step, start + 2 * step, ... below end
C29_Values(cell) ==
    [j \in 1..C29_Count(cell) |-> Num(cell.start.n + (j - 1) * cell.step.n)]
\* the Iterable has a finite end and a step greater than 0
C29_Finite(cell) == cell.end # Infinity /\ cell.step.n > 0
\* what a generator has yielded is a prefix of the values, all of them once
\* it is done, and map returns fn applied to the values in their order
C29_Safe ==
    /\ \A g \in DOMAIN tasks :
          LET cell == heap[tasks[g].obj]
              out == tasks[g].out
          IN  C29_Finite(cell) =>
                /\ Len(out) <= C29_Count(cell)
                /\ \A j \in DOMAIN out : out[j] = C29_Values(cell)[j]
                /\ tasks[g].pc = "done" => Len(out) = C29_Count(cell)
    /\ (last.op = "map" /\ C29_Finite(heap[last.self])) =>
          LET E == C29_Values(heap[last.self]) IN
          /\ ret.kind = "return"
          /\ ret.val.k = "arr"
          /\ Len(ret.val.xs) = Len(E)
          /\ \A j \in DOMAIN E : ret.val.xs[j] = Apply(last.fn, E[j])
          /\ Len(calls) = Len(E)
          /\ \A j \in DOMAIN E : calls[j] = Logged(last.fn.name, E[j])

\* C29: with a finite end and a step greater than 0, iter() yields exactly
\* start, start + step, start + 2 * step, ... below end, in that order, and
\* then finishes (nothing at all when start >= end), and map(fn) returns fn
\* applied to those values in the same order.
C29_Iteration ==
    /\ []C29_Safe
    /\ (tasks # <<>> /\ C29_Finite(heap[1])) ~> (tasks # <<>> /\ tasks[1].pc = "done")
\* the generator of new Iterable(0, 3, 2) is done after yielding 0 and 2
C29_Witness ==
    /\ tasks # <<>> /\ tasks[1].pc = "done"
    /\ tasks[1].out = <<Num(0), Num(2)>>
    /\ heap[1].end = Num(3)

====
